---- MODULE Spec2Model ----
(***************************************************************************)
(* Model of src/supertux/level_parser.cpp: the LevelParser of SuperTux.    *)
(*                                                                         *)
(* One behaviour is one call of one entry point (get_level_name,           *)
(* from_stream, from_file, from_nothing, from_nothing_worldmap) on a       *)
(* freshly constructed Level.  The initial state fixes the entry point and *)
(* its inputs (the document the reader will produce, the files that exist  *)
(* in the storage); the actions are the statements of the call.            *)
(*                                                                         *)
(* Text built with operator<< is a sequence of fragments for log lines and  *)
(* exception messages, and a string built with \o for file names, so that  *)
(* "the message names the path" and "the file name has no directory" are   *)
(* things the model can get wrong.                                         *)
(*                                                                         *)
(* m_editable is handed to the Sector Builder as it was given and read     *)
(* nowhere else in the file; the model leaves it out.                      *)
(***************************************************************************)
EXTENDS Integers, Sequences, FiniteSets, TLC

VARIABLES
  pc,          \* position of the call in the code
  entry,       \* the entry point that was called
  src,         \* filename / context / basedir argument
  name_arg,    \* `name` argument of from_nothing_worldmap
  input,       \* what the Document Tree Reader yields for src
  fs,          \* the files PHYSFS_exists answers true for
  level,       \* the Level being populated (m_level)
  version,     \* local `version` of load(const ReaderDocument&)
  iter,        \* position of `iter` in the root mapping
  num,         \* local `num` of the filename search
  level_file,  \* local `level_file` of the filename search
  exc,         \* message of the exception in flight / propagated
  outcome,     \* "running", "returned" or "raised"
  ret,         \* value returned by get_level_name
  log,         \* lines written to log_info / log_warning
  trace        \* calls to collaborators and writes of m_filename, in order

vars == <<pc, entry, src, name_arg, input, fs, level, version, iter, num,
          level_file, exc, outcome, ret, log, trace>>

-----------------------------------------------------------------------------
(* Bounds of the model *)

\* longest root mapping (number of children of the root node)
MaxChildren == 3
\* largest suffix N for which a level<N>.stl / worldmap<N>.stwm may exist
MaxFiles == 3

-----------------------------------------------------------------------------
(* Documents *)

RootTag == "supertux-level"

Scalar(k, s) == [key |-> k, str |-> s, num |-> 0]
Number(k, n) == [key |-> k, str |-> "", num |-> n]

\* the children a root mapping is built from
Entries ==
  { Number("version", 1), Number("version", 2), Number("version", 99),
    Number("target-time", 30),
    Scalar("name", "Foo"), Scalar("author", "Bar"), Scalar("contact", "bar@foo"),
    Scalar("license", ""), Scalar("license", "GPL"),
    Scalar("tileset", "images/ice.strf"),
    Scalar("sector", "A"), Scalar("sector", "B") }

Tuples(n) == [1..n -> Entries]

\* a field occurs at most once in a mapping; `sector` may repeat
WellFormed(c) ==
  \A i, j \in DOMAIN c : (i # j /\ c[i].key = c[j].key) => c[i].key = "sector"

Mappings == UNION { { c \in Tuples(n) : WellFormed(c) } : n \in 0..MaxChildren }

Unreadable == [readable |-> FALSE, root |-> "", children |-> << >>]

Documents == { [readable |-> TRUE, root |-> r, children |-> c] :
                 r \in {RootTag, "supertux-worldmap"}, c \in Mappings }

\* ReaderMapping::get(key, out) for a string: out is left alone when key is absent
Has(mapping, key) == \E i \in DOMAIN mapping : mapping[i].key = key
First(mapping, key) == CHOOSE i \in DOMAIN mapping :
                          /\ mapping[i].key = key
                          /\ \A j \in DOMAIN mapping : mapping[j].key = key => i <= j
GetStr(mapping, key, out) == IF Has(mapping, key) THEN mapping[First(mapping, key)].str ELSE out
GetNum(mapping, key, out) == IF Has(mapping, key) THEN mapping[First(mapping, key)].num ELSE out

-----------------------------------------------------------------------------
(* Text *)

\* does message m hold the fragment s
Mentions(m, s) == \E i \in DOMAIN m : m[i] = s

Count(seq, P(_)) == Cardinality({ i \in DOMAIN seq : P(seq[i]) })

Event(op, key, node) == [op |-> op, key |-> key, node |-> node]

Line(sev, msg) == [sev |-> sev, msg |-> msg]

-----------------------------------------------------------------------------
(* Level and sectors *)

\* Level::Level(): no file name, no sectors, statistics not initialised
NewLevel ==
  [filename |-> "", name |-> "", author |-> "", contact |-> "", license |-> "",
   tileset |-> "", target_time |-> 0, sectors |-> << >>, stats |-> -1]

\* SectorParser::from_reader on the i-th child of the root mapping
FromReader(mapping, i) == [origin |-> "from_reader", node |-> i, name |-> mapping[i].str]

\* SectorParser::from_reader_old_format on the root mapping itself
FromReaderOldFormat(mapping) == [origin |-> "from_reader_old_format", node |-> 0, name |-> ""]

\* SectorParser::from_nothing
FromNothingSector == [origin |-> "from_nothing", node |-> 0, name |-> ""]

\* Sector::set_name
SetName(sector, n) == [sector EXCEPT !.name = n]

\* Level::add_sector
AddSector(l, sector) == [l EXCEPT !.sectors = Append(@, sector)]

\* Statistics::init(level): reads the sectors the level holds at that moment
StatsInit(l) == [l EXCEPT !.stats = Len(l.sectors)]

\* what() of the exceptions of the collaborators; those of the reader and of the
\* Sector Builder name the document they were reading
ReaderErrors(source) == { <<"parse error in ", source>> }
SectorErrors(source) == { <<"bad sector in ", source>> }
TranslationErrors == { <<"no such directory">> }

-----------------------------------------------------------------------------
(* Initial states: one call of one entry point *)

Paths == {"levels/world1/intro.stl"}
Contexts == {"<undo_stack>"}
BaseDirs == {"levels/custom"}
Names == {"My World"}

Start(e, s, n, i, f) ==
  /\ pc = e
  /\ entry = e
  /\ src = s
  /\ name_arg = n
  /\ input = i
  /\ fs = f
  /\ level = NewLevel
  /\ version = 1
  /\ iter = 0
  /\ num = 0
  /\ level_file = ""
  /\ exc = << >>
  /\ outcome = "running"
  /\ ret = ""
  /\ log = << >>
  /\ trace = << >>

LoadInit ==
  \/ \E p \in Paths, d \in Documents \cup {Unreadable} : Start("from_file", p, "", d, {})
  \/ \E c \in Contexts, d \in Documents \cup {Unreadable} : Start("from_stream", c, "", d, {})

ProbeInit ==
  \E p \in Paths, d \in Documents \cup {Unreadable} : Start("get_level_name", p, "", d, {})

-----------------------------------------------------------------------------
(* Exceptions *)

\* an exception thrown inside load(const ReaderDocument&): load(const std::string&)
\* has a handler around it, load(std::istream&, ...) has none
Throw(msg) ==
  /\ exc' = msg
  /\ IF entry = "from_file"
       THEN pc' = "catch" /\ outcome' = outcome
       ELSE pc' = "done" /\ outcome' = "raised"

\* an exception no handler of this file is around
Propagate(msg) ==
  /\ exc' = msg
  /\ pc' = "done"
  /\ outcome' = "raised"

-----------------------------------------------------------------------------
(* from_stream / from_file *)

\* from_stream, load(std::istream&, const std::string&)
FromStream ==
  /\ pc = "from_stream"
  /\ trace' = Append(trace, Event("ReaderDocument::from_stream", src, 0))
  /\ IF input.readable
       THEN pc' = "load" /\ UNCHANGED <<exc, outcome>>
       ELSE \E m \in ReaderErrors(src) : Propagate(m)
  /\ UNCHANGED <<entry, src, name_arg, input, fs, level, version, iter, num,
                 level_file, ret, log>>

\* FromFile without `m_level.m_filename = filepath;`
FromFileNoFilename ==
  /\ pc = "from_file"
  /\ trace' = Append(trace, Event("register_translation_directory", src, 0))
  /\ \/ pc' = "open" /\ UNCHANGED <<exc, outcome>>
     \/ \E m \in TranslationErrors : Propagate(m)
  /\ UNCHANGED <<entry, src, name_arg, input, fs, level, version, iter, num,
                 level_file, ret, log>>

\* from_file, load(const std::string&) up to the try block
FromFile ==
  /\ pc = "from_file"
  /\ level' = [level EXCEPT !.filename = src]
  /\ trace' = trace \o << Event("m_filename", src, 0),
                          Event("register_translation_directory", src, 0) >>
  /\ \/ pc' = "open" /\ UNCHANGED <<exc, outcome>>
     \/ \E m \in TranslationErrors : Propagate(m)
  /\ UNCHANGED <<entry, src, name_arg, input, fs, version, iter, num,
                 level_file, ret, log>>

\* load(const std::string&): ReaderDocument::from_file inside the try block
OpenFile ==
  /\ pc = "open"
  /\ trace' = Append(trace, Event("ReaderDocument::from_file", src, 0))
  /\ IF input.readable
       THEN pc' = "load" /\ UNCHANGED <<exc, outcome>>
       ELSE \E m \in ReaderErrors(src) : Throw(m)
  /\ UNCHANGED <<entry, src, name_arg, input, fs, level, version, iter, num,
                 level_file, ret, log>>

\* load(const std::string&): the catch block
CatchLoad ==
  /\ pc = "catch"
  /\ exc' = <<"Problem when reading level '", src, "': ">> \o exc
  /\ pc' = "done"
  /\ outcome' = "raised"
  /\ UNCHANGED <<entry, src, name_arg, input, fs, level, version, iter, num,
                 level_file, ret, log, trace>>

-----------------------------------------------------------------------------
(* load(const ReaderDocument&) *)

Children == input.children

\* the six level.get(...) calls of the version 2 branch
ReadMetadata(l, mapping) ==
  [l EXCEPT !.tileset     = GetStr(mapping, "tileset", @),
            !.name        = GetStr(mapping, "name", @),
            !.author      = GetStr(mapping, "author", @),
            !.contact     = GetStr(mapping, "contact", @),
            !.license     = GetStr(mapping, "license", @),
            !.target_time = GetNum(mapping, "target-time", @)]

MetadataReads ==
  << Event("get", "tileset", 0), Event("get", "name", 0), Event("get", "author", 0),
     Event("get", "contact", 0), Event("get", "license", 0),
     Event("get", "target-time", 0) >>

\* ReadVersion with `int version = 2;` as the default
ReadVersionDefault2(mapping) == GetNum(mapping, "version", 2)

\* the version read from the root mapping: 1 when the field is absent
ReadVersion(mapping) == GetNum(mapping, "version", 1)

\* the root tag check
LoadBadRoot ==
  /\ pc = "load"
  /\ input.root # RootTag
  /\ Throw(<<"file is not a supertux-level file.">>)
  /\ UNCHANGED <<entry, src, name_arg, input, fs, level, version, iter, num,
                 level_file, ret, log, trace>>

\* version 1: the notice, then load_old_format
LoadVersion1 ==
  /\ pc = "load"
  /\ input.root = RootTag
  /\ ReadVersion(Children) = 1
  /\ version' = ReadVersion(Children)
  /\ trace' = Append(trace, Event("get", "version", 0))
  /\ log' = Append(log, Line("info", <<"[", src, "] level uses old format: version 1">>))
  /\ pc' = "old_format"
  /\ UNCHANGED <<entry, src, name_arg, input, fs, level, iter, num,
                 level_file, exc, outcome, ret>>

\* LoadVersion2 with the statistics initialized before the sectors are read
LoadVersion2EarlyStats ==
  /\ pc = "load"
  /\ input.root = RootTag
  /\ ReadVersion(Children) = 2
  /\ version' = ReadVersion(Children)
  /\ level' = StatsInit(ReadMetadata(level, Children))
  /\ trace' = trace \o << Event("get", "version", 0) >> \o MetadataReads
                    \o << Event("stats.init", "", 0) >>
  /\ iter' = 0
  /\ pc' = "iter"
  /\ UNCHANGED <<entry, src, name_arg, input, fs, num,
                 level_file, exc, outcome, ret, log>>

\* version 2: the metadata fields, then the iterator over the root mapping
LoadVersion2 ==
  /\ pc = "load"
  /\ input.root = RootTag
  /\ ReadVersion(Children) = 2
  /\ version' = ReadVersion(Children)
  /\ level' = ReadMetadata(level, Children)
  /\ trace' = trace \o << Event("get", "version", 0) >> \o MetadataReads
  /\ iter' = 0
  /\ pc' = "iter"
  /\ UNCHANGED <<entry, src, name_arg, input, fs, num,
                 level_file, exc, outcome, ret, log>>

\* LoadUnsupported throwing instead of warning
LoadUnsupportedThrows ==
  /\ pc = "load"
  /\ input.root = RootTag
  /\ ReadVersion(Children) \notin {1, 2}
  /\ version' = ReadVersion(Children)
  /\ trace' = Append(trace, Event("get", "version", 0))
  /\ Throw(<<"level format version ", ToString(ReadVersion(Children)), " is not supported">>)
  /\ UNCHANGED <<entry, src, name_arg, input, fs, level, iter, num,
                 level_file, ret, log>>

\* any other version: a warning and nothing else
LoadUnsupported ==
  /\ pc = "load"
  /\ input.root = RootTag
  /\ ReadVersion(Children) \notin {1, 2}
  /\ version' = ReadVersion(Children)
  /\ trace' = Append(trace, Event("get", "version", 0))
  /\ log' = Append(log, Line("warning",
                 <<"[", src, "] level format version ", ToString(ReadVersion(Children)),
                   " is not supported">>))
  /\ pc' = "stats"
  /\ UNCHANGED <<entry, src, name_arg, input, fs, level, iter, num,
                 level_file, exc, outcome, ret>>

\* LoadOldFormat without `m_level.add_sector(std::move(sector));`
LoadOldFormatNoAdd ==
  /\ pc = "old_format"
  /\ trace' = trace \o << Event("get", "name", 0), Event("get", "author", 0),
                          Event("from_reader_old_format", "", 0) >>
  /\ level' = [level EXCEPT !.name = GetStr(Children, "name", @),
                            !.author = GetStr(Children, "author", @)]
  /\ pc' = "stats"
  /\ UNCHANGED <<entry, src, name_arg, input, fs, version, iter, num,
                 level_file, exc, outcome, ret, log>>

\* load_old_format: name and author, then the one sector made of the root mapping
LoadOldFormat ==
  /\ pc = "old_format"
  /\ trace' = trace \o << Event("get", "name", 0), Event("get", "author", 0),
                          Event("from_reader_old_format", "", 0) >>
                    \o << Event("add_sector", "", 0) >>
  /\ level' = AddSector([level EXCEPT !.name = GetStr(Children, "name", @),
                                      !.author = GetStr(Children, "author", @)],
                        FromReaderOldFormat(Children))
  /\ pc' = "stats"
  /\ UNCHANGED <<entry, src, name_arg, input, fs, version, iter, num,
                 level_file, exc, outcome, ret, log>>

\* load_old_format when SectorParser::from_reader_old_format throws
LoadOldFormatFails ==
  /\ pc = "old_format"
  /\ trace' = trace \o << Event("get", "name", 0), Event("get", "author", 0),
                          Event("from_reader_old_format", "", 0) >>
  /\ level' = [level EXCEPT !.name = GetStr(Children, "name", @),
                            !.author = GetStr(Children, "author", @)]
  /\ \E m \in SectorErrors(src) : Throw(m)
  /\ UNCHANGED <<entry, src, name_arg, input, fs, version, iter, num,
                 level_file, ret, log>>

\* IterSector putting the new sector in front of the others
IterSectorFront ==
  /\ pc = "iter"
  /\ iter < Len(Children)
  /\ Children[iter + 1].key = "sector"
  /\ iter' = iter + 1
  /\ trace' = trace \o << Event("from_reader", "", iter + 1), Event("add_sector", "", iter + 1) >>
  /\ level' = [level EXCEPT !.sectors = << FromReader(Children, iter + 1) >> \o @]
  /\ UNCHANGED <<pc, entry, src, name_arg, input, fs, version, num,
                 level_file, exc, outcome, ret, log>>

\* iter.next() on a child whose key is `sector`: build it and append it
IterSector ==
  /\ pc = "iter"
  /\ iter < Len(Children)
  /\ Children[iter + 1].key = "sector"
  /\ iter' = iter + 1
  /\ trace' = trace \o << Event("from_reader", "", iter + 1), Event("add_sector", "", iter + 1) >>
  /\ level' = AddSector(level, FromReader(Children, iter + 1))
  /\ UNCHANGED <<pc, entry, src, name_arg, input, fs, version, num,
                 level_file, exc, outcome, ret, log>>

\* iter.next() on a `sector` child when SectorParser::from_reader throws
IterSectorFails ==
  /\ pc = "iter"
  /\ iter < Len(Children)
  /\ Children[iter + 1].key = "sector"
  /\ iter' = iter + 1
  /\ trace' = Append(trace, Event("from_reader", "", iter + 1))
  /\ \E m \in SectorErrors(src) : Throw(m)
  /\ UNCHANGED <<entry, src, name_arg, input, fs, level, version, num,
                 level_file, ret, log>>

\* iter.next() on a child with any other key
IterSkip ==
  /\ pc = "iter"
  /\ iter < Len(Children)
  /\ Children[iter + 1].key # "sector"
  /\ iter' = iter + 1
  /\ UNCHANGED <<pc, entry, src, name_arg, input, fs, level, version, num,
                 level_file, exc, outcome, ret, log, trace>>

\* iter.next() returns false: the license check after the loop
LicenseCheck ==
  /\ pc = "iter"
  /\ iter = Len(Children)
  /\ log' = IF level.license = ""
              THEN Append(log, Line("warning",
                     <<"[", src, "] The level author \"", level.author,
                       "\" did not specify a license for this level \"", level.name,
                       "\". You might not be allowed to share it.">>))
              ELSE log
  /\ pc' = "stats"
  /\ UNCHANGED <<entry, src, name_arg, input, fs, level, version, iter, num,
                 level_file, exc, outcome, ret, trace>>

\* m_level.m_stats.init(m_level), and the return to the caller
InitStats ==
  /\ pc = "stats"
  /\ level' = StatsInit(level)
  /\ trace' = Append(trace, Event("stats.init", "", 0))
  /\ pc' = "done"
  /\ outcome' = "returned"
  /\ UNCHANGED <<entry, src, name_arg, input, fs, version, iter, num,
                 level_file, exc, ret, log>>

LoadNext ==
  \/ FromStream \/ FromFile \/ OpenFile \/ CatchLoad
  \/ LoadBadRoot \/ LoadVersion1 \/ LoadVersion2 \/ LoadUnsupported
  \/ LoadOldFormat \/ LoadOldFormatFails
  \/ IterSector \/ IterSectorFails \/ IterSkip \/ LicenseCheck
  \/ InitStats

-----------------------------------------------------------------------------
(* get_level_name *)

\* register_translation_directory, first statement of the try block
ProbeRegister ==
  /\ pc = "get_level_name"
  /\ trace' = Append(trace, Event("register_translation_directory", src, 0))
  /\ \/ pc' = "probe_open" /\ exc' = exc
     \/ \E m \in TranslationErrors : pc' = "probe_catch" /\ exc' = m
  /\ UNCHANGED <<entry, src, name_arg, input, fs, level, version, iter, num,
                 level_file, outcome, ret, log>>

\* ReaderDocument::from_file inside the try block
ProbeOpen ==
  /\ pc = "probe_open"
  /\ trace' = Append(trace, Event("ReaderDocument::from_file", src, 0))
  /\ IF input.readable
       THEN pc' = "probe_root" /\ exc' = exc
       ELSE \E m \in ReaderErrors(src) : pc' = "probe_catch" /\ exc' = m
  /\ UNCHANGED <<entry, src, name_arg, input, fs, level, version, iter, num,
                 level_file, outcome, ret, log>>

\* the name get_level_name answers with for a readable document
ProbedName(doc) == IF doc.root # RootTag THEN "" ELSE GetStr(doc.children, "name", "")

\* the root tag check and the read of `name`
ProbeRoot ==
  /\ pc = "probe_root"
  /\ ret' = ProbedName(input)
  /\ trace' = IF input.root # RootTag THEN trace ELSE Append(trace, Event("get", "name", 0))
  /\ pc' = "done"
  /\ outcome' = "returned"
  /\ UNCHANGED <<entry, src, name_arg, input, fs, level, version, iter, num,
                 level_file, exc, log>>

\* ProbeCatch rethrowing after the warning
ProbeCatchRethrows ==
  /\ pc = "probe_catch"
  /\ log' = Append(log, Line("warning", <<"Problem getting name of '", src, "': ">> \o exc))
  /\ ret' = ""
  /\ pc' = "done"
  /\ outcome' = "raised"
  /\ UNCHANGED <<entry, src, name_arg, input, fs, level, version, iter, num,
                 level_file, exc, trace>>

\* the catch block: a warning, and the empty string
ProbeCatch ==
  /\ pc = "probe_catch"
  /\ log' = Append(log, Line("warning", <<"Problem getting name of '", src, "': ">> \o exc))
  /\ ret' = ""
  /\ pc' = "done"
  /\ outcome' = "returned"
  /\ UNCHANGED <<entry, src, name_arg, input, fs, level, version, iter, num,
                 level_file, exc, trace>>

ProbeNext == ProbeRegister \/ ProbeOpen \/ ProbeRoot \/ ProbeCatch

-----------------------------------------------------------------------------
(* from_nothing / from_nothing_worldmap *)

LevelPath(basedir, n) == basedir \o "/level" \o ToString(n) \o ".stl"
LevelFile(n) == "level" \o ToString(n) \o ".stl"
LevelName(n) == "Level " \o ToString(n)
WorldmapPath(basedir, n) == basedir \o "/worldmap" \o ToString(n) \o ".stwm"
WorldmapFile(n) == "worldmap" \o ToString(n) \o ".stwm"
PlainWorldmapPath(basedir) == basedir \o "/worldmap.stwm"
PlainWorldmapFile == "worldmap.stwm"

PHYSFS_exists(f) == f \in fs

\* the files a storage may hold: under the base directory, and of the same
\* relative name outside it
LevelFiles(basedir) ==
  { LevelPath(basedir, n) : n \in 1..MaxFiles } \cup { LevelFile(n) : n \in 1..MaxFiles }
WorldmapFiles(basedir) ==
  { WorldmapPath(basedir, n) : n \in 1..MaxFiles } \cup { WorldmapFile(n) : n \in 1..MaxFiles }
    \cup { PlainWorldmapPath(basedir), PlainWorldmapFile }

AllocInit ==
  \/ \E b \in BaseDirs : \E f \in SUBSET LevelFiles(b) :
        Start("from_nothing", b, "", Unreadable, f)
  \/ \E b \in BaseDirs, n \in Names : \E f \in SUBSET WorldmapFiles(b) :
        Start("from_nothing_worldmap", b, n, Unreadable, f)

\* from_nothing up to the do-while loop
FromNothing ==
  /\ pc = "from_nothing"
  /\ num' = 0
  /\ level_file' = ""
  /\ pc' = "probe_level"
  /\ UNCHANGED <<entry, src, name_arg, input, fs, level, version, iter,
                 exc, outcome, ret, log, trace>>

\* ProbeLevel asking for the relative name instead of the full path
ProbeLevelRelative ==
  /\ pc = "probe_level"
  /\ num' = num + 1
  /\ trace' = Append(trace, Event("PHYSFS_exists", LevelFile(num + 1), 0))
  /\ IF PHYSFS_exists(LevelFile(num + 1))
       THEN /\ level_file' = LevelFile(num + 1)
            /\ UNCHANGED <<pc, name_arg>>
       ELSE /\ level_file' = LevelFile(num + 1)
            /\ name_arg' = LevelName(num + 1)
            /\ pc' = "create"
  /\ UNCHANGED <<entry, src, input, fs, level, version, iter,
                 exc, outcome, ret, log>>

\* one turn of the do-while loop of from_nothing, and the two statements after
\* the loop when it ends
ProbeLevel ==
  /\ pc = "probe_level"
  /\ num' = num + 1
  /\ trace' = Append(trace, Event("PHYSFS_exists", LevelPath(src, num + 1), 0))
  /\ IF PHYSFS_exists(LevelPath(src, num + 1))
       THEN /\ level_file' = LevelPath(src, num + 1)
            /\ UNCHANGED <<pc, name_arg>>
       ELSE /\ level_file' = LevelFile(num + 1)
            /\ name_arg' = LevelName(num + 1)
            /\ pc' = "create"
  /\ UNCHANGED <<entry, src, input, fs, level, version, iter,
                 exc, outcome, ret, log>>

\* FromNothingWorldmap without the else branch: level_file keeps the full path
FromNothingWorldmapFullPath ==
  /\ pc = "from_nothing_worldmap"
  /\ trace' = Append(trace, Event("PHYSFS_exists", PlainWorldmapPath(src), 0))
  /\ level_file' = PlainWorldmapPath(src)
  /\ IF PHYSFS_exists(PlainWorldmapPath(src))
       THEN num' = 0 /\ pc' = "probe_worldmap"
       ELSE num' = num /\ pc' = "create"
  /\ UNCHANGED <<entry, src, name_arg, input, fs, level, version, iter,
                 exc, outcome, ret, log>>

\* from_nothing_worldmap up to the choice between worldmap.stwm and a suffix
FromNothingWorldmap ==
  /\ pc = "from_nothing_worldmap"
  /\ trace' = Append(trace, Event("PHYSFS_exists", PlainWorldmapPath(src), 0))
  /\ IF PHYSFS_exists(PlainWorldmapPath(src))
       THEN /\ level_file' = PlainWorldmapPath(src)
            /\ num' = 0
            /\ pc' = "probe_worldmap"
       ELSE /\ level_file' = PlainWorldmapFile
            /\ num' = num
            /\ pc' = "create"
  /\ UNCHANGED <<entry, src, name_arg, input, fs, level, version, iter,
                 exc, outcome, ret, log>>

\* one turn of the do-while loop of from_nothing_worldmap, and the statement
\* after the loop when it ends
ProbeWorldmap ==
  /\ pc = "probe_worldmap"
  /\ num' = num + 1
  /\ trace' = Append(trace, Event("PHYSFS_exists", WorldmapPath(src, num + 1), 0))
  /\ IF PHYSFS_exists(WorldmapPath(src, num + 1))
       THEN /\ level_file' = WorldmapPath(src, num + 1)
            /\ pc' = pc
       ELSE /\ level_file' = WorldmapFile(num + 1)
            /\ pc' = "create"
  /\ UNCHANGED <<entry, src, name_arg, input, fs, level, version, iter,
                 exc, outcome, ret, log>>

\* the fields create() seeds
Seed(l, filepath, levelname, worldmap) ==
  [l EXCEPT !.filename = filepath,
            !.name = levelname,
            !.license = "CC-BY-SA 4.0 International",
            !.tileset = IF worldmap THEN "images/worldmap.strf" ELSE "images/tiles.strf"]

\* create(filepath, levelname, worldmap), and the return to the caller
Create ==
  /\ pc = "create"
  /\ level' = AddSector(Seed(level, level_file, name_arg, entry = "from_nothing_worldmap"),
                        SetName(FromNothingSector, "main"))
  /\ trace' = trace \o << Event("m_filename", level_file, 0), Event("from_nothing", "", 0),
                          Event("add_sector", "", 0) >>
  /\ pc' = "done"
  /\ outcome' = "returned"
  /\ UNCHANGED <<entry, src, name_arg, input, fs, version, iter, num,
                 level_file, exc, ret, log>>

AllocNext == FromNothing \/ ProbeLevel \/ FromNothingWorldmap \/ ProbeWorldmap \/ Create

-----------------------------------------------------------------------------
(* Specifications *)

Init == LoadInit \/ ProbeInit \/ AllocInit

Next == LoadNext \/ ProbeNext \/ AllocNext

\* every call of every entry point
Spec == Init /\ [][Next]_vars

\* the calls of from_nothing and from_nothing_worldmap; the calling thread keeps
\* running until the call returns
AllocSpec == AllocInit /\ [][AllocNext]_vars /\ WF_vars(AllocNext)

-----------------------------------------------------------------------------
(* What a state says about the call *)

Ops(op) == Count(trace, LAMBDA e : e.op = op)

Reads(key) == Count(trace, LAMBDA e : e.op = "get" /\ e.key = key)

Warnings == Count(log, LAMBDA l : l.sev = "warning")

IsLoad == entry \in {"from_file", "from_stream"}

IsCreate == entry \in {"from_nothing", "from_nothing_worldmap"}

Returned == pc = "done" /\ outcome = "returned"

Raised == pc = "done" /\ outcome = "raised"

\* load(const ReaderDocument&) has been entered
Opened ==
  /\ IsLoad
  /\ input.readable
  /\ Ops("ReaderDocument::from_file") + Ops("ReaderDocument::from_stream") = 1

ValidRoot == input.root = RootTag

\* the positions of the `sector` children of a mapping, and the k-th of them
SectorNodes(mapping) == { i \in DOMAIN mapping : mapping[i].key = "sector" }

Nth(S, k) == CHOOSE i \in S : Cardinality({ j \in S : j < i }) = k - 1

\* the smallest n >= 1 no file path(n) exists for (at most MaxFiles files exist)
FirstFree(path(_)) ==
  CHOOSE n \in 1..(MaxFiles + 1) :
    /\ path(n) \notin fs
    /\ \A m \in 1..(n - 1) : path(m) \in fs

\* every existence probe so far was made on a path under the base directory
ProbesUnderBasedir ==
  \A i \in DOMAIN trace :
    trace[i].op = "PHYSFS_exists" =>
      trace[i].key \in { LevelPath(src, n) : n \in 1..(MaxFiles + 1) }
                    \cup { WorldmapPath(src, n) : n \in 1..(MaxFiles + 1) }
                    \cup { PlainWorldmapPath(src) }

OneMainSector ==
  /\ Len(level.sectors) = 1
  /\ level.sectors[1].name = "main"
  /\ level.sectors[1].origin = "from_nothing"

-----------------------------------------------------------------------------
(* C1 *)

\* C1: a successful load of a version 2 document with a valid root tag leaves
\* as the Level's sectors the sectors built from the root's `sector` children,
\* in document order: as many sectors as `sector` children, the k-th sector
\* built from the k-th `sector` child, nothing built from any other child.
C1_SectorsInDocumentOrder ==
  (IsLoad /\ Returned /\ ValidRoot /\ ReadVersion(Children) = 2) =>
     /\ Len(level.sectors) = Cardinality(SectorNodes(Children))
     /\ \A k \in 1..Len(level.sectors) :
          level.sectors[k] = FromReader(Children, Nth(SectorNodes(Children), k))

\* a version 2 load that returned two different sectors with a child of another
\* key between them
C1_Witness ==
  /\ IsLoad /\ Returned /\ ValidRoot /\ ReadVersion(Children) = 2
  /\ Len(level.sectors) >= 2
  /\ level.sectors[1].name # level.sectors[2].name
  /\ level.sectors[2].node > level.sectors[1].node + 1

-----------------------------------------------------------------------------
(* C2 *)

C2_Result ==
  (entry = "from_nothing" /\ pc = "done") =>
     LET N == FirstFree(LAMBDA n : LevelPath(src, n)) IN
       /\ outcome = "returned"
       /\ level.filename = LevelFile(N)
       /\ level.name = LevelName(N)
       /\ level.license = "CC-BY-SA 4.0 International"
       /\ level.tileset = "images/tiles.strf"
       /\ OneMainSector

\* C2: from_nothing(basedir) terminates, and returns a Level whose filename is
\* the directory-less level<N>.stl and whose name is `Level <N>` for the
\* smallest N >= 1 such that basedir/level<N>.stl does not exist, every
\* existence probe being made on the full path; license, tileset and the one
\* sector `main` are the seeded ones.
C2_FromNothing ==
  /\ [](C2_Result /\ (entry = "from_nothing" => ProbesUnderBasedir))
  /\ (entry = "from_nothing") ~> (pc = "done")

\* level1.stl and level2.stl exist under the base directory, level3.stl does not
\* there but does as a relative name: the answer is level3.stl
C2_Witness ==
  /\ entry = "from_nothing" /\ Returned
  /\ LevelPath(src, 1) \in fs /\ LevelPath(src, 2) \in fs /\ LevelPath(src, 3) \notin fs
  /\ LevelFile(3) \in fs /\ LevelFile(1) \notin fs
  /\ level.filename = "level3.stl"
  /\ level.name = "Level 3"

-----------------------------------------------------------------------------
(* C3 *)

\* C3: from_nothing_worldmap(basedir, name) returns a Level whose filename is
\* worldmap.stwm when basedir/worldmap.stwm does not exist, whatever suffixed
\* files exist, and else worldmap<N>.stwm for the smallest N >= 1 such that
\* basedir/worldmap<N>.stwm does not exist; its name is the name given, its
\* tileset images/worldmap.strf, and it has the one sector `main`.
C3_FromNothingWorldmap ==
  (entry = "from_nothing_worldmap" /\ pc = "done") =>
     /\ outcome = "returned"
     /\ level.filename =
          IF PlainWorldmapPath(src) \notin fs
            THEN "worldmap.stwm"
            ELSE WorldmapFile(FirstFree(LAMBDA n : WorldmapPath(src, n)))
     /\ level.name = name_arg
     /\ name_arg \in Names
     /\ level.tileset = "images/worldmap.strf"
     /\ OneMainSector

\* worldmap.stwm exists under the base directory and worldmap1.stwm does not
C3_Witness ==
  /\ entry = "from_nothing_worldmap" /\ Returned
  /\ PlainWorldmapPath(src) \in fs
  /\ WorldmapPath(src, 1) \notin fs
  /\ WorldmapFile(1) \in fs
  /\ level.filename = "worldmap1.stwm"
  /\ level.name = "My World"

-----------------------------------------------------------------------------
(* C4 *)

\* the document has a `version` field and it is neither 1 nor 2
UnsupportedVersion == Has(Children, "version") /\ ReadVersion(Children) \notin {1, 2}

MetadataUntouched ==
  /\ level.name = NewLevel.name
  /\ level.author = NewLevel.author
  /\ level.contact = NewLevel.contact
  /\ level.license = NewLevel.license
  /\ level.tileset = NewLevel.tileset
  /\ level.target_time = NewLevel.target_time

\* C4: once a document with a valid root tag and a `version` that is neither 1
\* nor 2 is being loaded, no Sector Builder entry point is invoked, no field
\* but `version` is read, the metadata keeps its defaults, nothing is raised,
\* and the load returns a Level with no sector after exactly one warning, the
\* `not supported` one.
C4_UnsupportedVersion ==
  (Opened /\ ValidRoot /\ UnsupportedVersion) =>
     /\ outcome # "raised"
     /\ pc # "catch"
     /\ Ops("from_reader") + Ops("from_reader_old_format") + Ops("from_nothing") = 0
     /\ \A i \in DOMAIN trace : trace[i].op = "get" => trace[i].key = "version"
     /\ MetadataUntouched
     /\ level.sectors = << >>
     /\ pc \in {"load", "stats", "done"}
     /\ pc \in {"stats", "done"} =>
          /\ Warnings = 1
          /\ Len(log) = 1
          /\ Mentions(log[1].msg, " is not supported")
          /\ Mentions(log[1].msg, ToString(ReadVersion(Children)))
          /\ ~ Mentions(log[1].msg, "\" did not specify a license for this level \"")
     /\ pc = "done" => outcome = "returned" /\ level.stats = 0

\* a version 99 document that also holds metadata and a sector has been loaded
C4_Witness ==
  /\ Opened /\ ValidRoot /\ UnsupportedVersion /\ Returned
  /\ ReadVersion(Children) = 99
  /\ Has(Children, "sector")
  /\ \E k \in {"name", "author", "contact", "license", "tileset", "target-time"} :
        Has(Children, k)
  /\ Warnings = 1

-----------------------------------------------------------------------------
(* C5 *)

\* C5: a document with a valid root tag and no `version` field takes the
\* legacy path: the `old format` notice is logged, `name` and `author` are
\* read from the root mapping, the legacy entry point of the Sector Builder is
\* invoked once on the root mapping, the current-format entry point never,
\* and a Level that is returned has exactly one sector.
C5_NoVersionIsLegacy ==
  (Opened /\ ValidRoot /\ ~ Has(Children, "version") /\ pc \in {"stats", "catch", "done"}) =>
     /\ version = 1
     /\ Len(log) = 1
     /\ log[1] = Line("info", <<"[", src, "] level uses old format: version 1">>)
     /\ Reads("name") = 1 /\ Reads("author") = 1
     /\ Reads("tileset") + Reads("contact") + Reads("license") + Reads("target-time") = 0
     /\ level.name = GetStr(Children, "name", NewLevel.name)
     /\ level.author = GetStr(Children, "author", NewLevel.author)
     /\ Ops("from_reader_old_format") = 1
     /\ Ops("from_reader") = 0
     /\ outcome = "returned" =>
          /\ Len(level.sectors) = 1
          /\ level.sectors[1] = FromReaderOldFormat(Children)

\* a document without `version` that holds `sector` children and a name has
\* been loaded
C5_Witness ==
  /\ Opened /\ ValidRoot /\ ~ Has(Children, "version") /\ Returned
  /\ Has(Children, "sector")
  /\ level.name = "Foo"
  /\ Len(level.sectors) = 1

-----------------------------------------------------------------------------
(* C6 *)

\* C6: get_level_name never raises.  It returns the empty string without a
\* warning when the root tag is not supertux-level; the empty string after
\* exactly one warning that names the path when registering the translation
\* directory or opening the document fails; and else the root's `name`, the
\* empty string when there is none.  It invokes no Sector Builder entry point
\* and reads no field but `name`.
C6_GetLevelName ==
  (entry = "get_level_name") =>
     /\ outcome # "raised"
     /\ Ops("from_reader") + Ops("from_reader_old_format") + Ops("from_nothing") = 0
     /\ \A i \in DOMAIN trace : trace[i].op = "get" => trace[i].key = "name"
     /\ level = NewLevel
     /\ pc = "done" =>
          /\ outcome = "returned"
          /\ IF exc # << >>
               THEN /\ ret = ""
                    /\ Len(log) = 1
                    /\ log[1].sev = "warning"
                    /\ Mentions(log[1].msg, src)
                    /\ \A i \in DOMAIN exc : Mentions(log[1].msg, exc[i])
               ELSE /\ log = << >>
                    /\ input.readable
                    /\ ret = IF input.root # RootTag THEN ""
                             ELSE IF Has(Children, "name")
                                    THEN Children[First(Children, "name")].str
                                    ELSE ""

\* get_level_name has answered "" with one warning for a file no document can be
\* read from
C6_Witness ==
  /\ entry = "get_level_name" /\ Returned
  /\ ~ input.readable
  /\ ret = "" /\ Len(log) = 1

C6_Witness_Name ==
  /\ entry = "get_level_name" /\ Returned
  /\ ret = "Foo"

\* get_level_name has answered "" for another root tag, although the root has a
\* name
C6_Witness_OtherRoot ==
  /\ entry = "get_level_name" /\ Returned
  /\ input.readable /\ input.root # RootTag
  /\ Has(Children, "name")
  /\ ret = "" /\ log = << >>

-----------------------------------------------------------------------------
(* C7 *)

\* the call is one the claim calls supported: a version 1 or version 2 load,
\* or a synthesized level or worldmap
SupportedCall == IsCreate \/ (IsLoad /\ ReadVersion(Children) \in {1, 2})

\* C7 as stated: every Level returned for a supported version holds at least
\* one sector.
C7_AtLeastOneSector ==
  (Returned /\ SupportedCall) => Len(level.sectors) >= 1

\* C7 as the code has it: a Level returned by a version 1 load or by a create
\* call holds exactly one sector, and one returned by a version 2 load as many
\* sectors as the root has `sector` children; the Levels returned without a
\* sector are those of an unsupported version and those of a version 2 document
\* without `sector` children.
C7_SectorCount ==
  (Returned /\ (IsLoad \/ IsCreate)) =>
     /\ IsCreate => Len(level.sectors) = 1
     /\ (IsLoad /\ ReadVersion(Children) = 1) => Len(level.sectors) = 1
     /\ (IsLoad /\ ReadVersion(Children) = 2) =>
           Len(level.sectors) = Cardinality(SectorNodes(Children))
     /\ Len(level.sectors) = 0 <=>
           /\ IsLoad
           /\ \/ ReadVersion(Children) \notin {1, 2}
              \/ ReadVersion(Children) = 2 /\ ~ Has(Children, "sector")

\* a version 2 document without `sector` children has been loaded
C7_Witness ==
  /\ IsLoad /\ Returned
  /\ ReadVersion(Children) = 2
  /\ ~ Has(Children, "sector")
  /\ level.sectors = << >>

-----------------------------------------------------------------------------
(* C8 *)

FilenameWrites == Ops("m_filename")

\* the file name last assigned to the Level
LastWritten ==
  LET W == { i \in DOMAIN trace : trace[i].op = "m_filename" } IN
    IF W = {} THEN NewLevel.filename
    ELSE trace[CHOOSE i \in W : \A j \in W : j <= i].key

\* C8 as stated: through each of the four entry points the Level's filename
\* has been assigned exactly once when the call ends.
C8_FilenameAssignedOnce ==
  (pc = "done" /\ (IsLoad \/ IsCreate)) => FilenameWrites = 1

\* C8 as the code has it: the filename is assigned at most once in a call;
\* when a call of from_file, from_nothing or from_nothing_worldmap ends it has
\* been assigned exactly once, and when a call of from_stream ends it has never
\* been assigned and is still empty.
C8_FilenameWrites ==
  (IsLoad \/ IsCreate) =>
     /\ FilenameWrites <= 1
     /\ level.filename = LastWritten
     /\ pc = "done" =>
          FilenameWrites = IF entry = "from_stream" THEN 0 ELSE 1
     /\ (pc = "done" /\ entry = "from_file") => level.filename = src
     /\ (pc = "done" /\ entry = "from_stream") => level.filename = ""

\* a call of from_stream has returned a Level with sectors and no filename
C8_Witness ==
  /\ entry = "from_stream" /\ Returned
  /\ Len(level.sectors) >= 1
  /\ FilenameWrites = 0
  /\ level.filename = ""

-----------------------------------------------------------------------------
(* C9 *)

\* C9: in a load that passes the root tag check the statistics initializer
\* runs at most once and no sector is appended after it; a load that returns,
\* on any of the three version branches, has run it exactly once, on the final
\* sectors; a load that raises (root tag, Sector Builder, reader) never ran it.
C9_StatsAfterSectors ==
  IsLoad =>
     /\ Ops("stats.init") <= 1
     /\ \A i, j \in DOMAIN trace :
          (trace[i].op = "stats.init" /\ trace[j].op = "add_sector") => j < i
     /\ Returned =>
          /\ Ops("stats.init") = 1
          /\ trace[Len(trace)].op = "stats.init"
          /\ level.stats = Len(level.sectors)
     /\ (Raised \/ pc = "catch") =>
          /\ Ops("stats.init") = 0
          /\ level.stats = NewLevel.stats

\* a version 2 load has returned with two sectors and initialized statistics
C9_Witness ==
  /\ IsLoad /\ Returned
  /\ ReadVersion(Children) = 2
  /\ Len(level.sectors) = 2
  /\ level.stats = 2

\* a load has raised out of the Sector Builder after a first sector was appended
C9_Witness_Raised ==
  /\ IsLoad /\ Raised
  /\ Len(level.sectors) = 1
  /\ Ops("from_reader") = 2

-----------------------------------------------------------------------------
(* C10 *)

\* the errors the claim is about: all that propagate out of a load but that of
\* register_translation_directory
LoadError == IsLoad /\ Raised /\ exc \notin TranslationErrors

\* C10 as stated: every such error names the source (the file path, or the
\* context label of the stream) and holds the message of its cause; out of
\* from_file it is the wrapped error.
C10_ErrorsNameSource ==
  LoadError =>
     /\ Mentions(exc, src)
     /\ entry = "from_file" =>
          /\ SubSeq(exc, 1, 3) = <<"Problem when reading level '", src, "': ">>
          /\ Len(exc) > 3

====
